---- MODULE Spec2Model ----
(***************************************************************************)
(* Model of the bitflag support of cmd/stringer (FrankReh/tools):          *)
(*   - the generator side: splitIntoBitflagRuns, nameAndRest, shiftCount,  *)
(*     buildBitflag (src/cmd/stringer/bitflag.go, second copy, l. 417ff);  *)
(*   - the generated side: the four String templates and the shared        *)
(*     _stringerBitflag / _stringerBitflagCache routines.                  *)
(*                                                                         *)
(* A uint64 is modelled as the set of its set bit positions (a subset of   *)
(* 0..63), so that all 64 bits are kept: shifts drop the bits leaving the  *)
(* type's width, & is intersection, ^ is symmetric difference.  Go strings *)
(* are TLA+ strings.                                                       *)
(***************************************************************************)
EXTENDS Integers, Sequences, FiniteSets, TLC

VARIABLES
    typ,       \* the user's flag type T: [bits, signed] (chosen by the user's source)
    values,    \* the []Value handed to buildBitflag by Generator.generate
    g,         \* the Generator's flags: [table, cache]
    gen,       \* "input" before buildBitflag has run, then "built" | "panic" | "exit"
    art,       \* what buildBitflag emitted: the table and the chosen String code
    cached,    \* the cache map of the generated code ([nil, map])
    mu,        \* the sync.RWMutex guarding it: [readers, writer]
    pc,        \* per goroutine: position inside String
    arg,       \* per goroutine: the receiver m of the String call in progress (or last made)
    loc,       \* per goroutine: the locals s, ok of the cache wrapper
    ret,       \* per goroutine: what the last String call returned (NoRet before)
    nfresh,    \* workload counter: how many distinct fresh masks have been handed out
    batch      \* one run of genFile over several types: [types, next, buf, file, status]

vars == <<typ, values, g, gen, art, cached, mu, pc, arg, loc, ret, nfresh, batch>>

-----------------------------------------------------------------------------
(* Bounds of the model *)

\* longest input list of constants explored by Spec
MaxLen == 3
\* number of fresh masks beyond the cache capacity that SpecCache hands out
ExtraFresh == 2

\* the cache size limit of the generated code (capCache)
capCache == 256

-----------------------------------------------------------------------------
(* uint64 / T arithmetic on bit sets *)

Max(S) == CHOOSE x \in S : \A y \in S : y <= x

\* number of bits of uint64
W64 == 64

\* v << k in a type of w bits (Go: bits shifted out are lost, k >= w gives 0)
Shl(v, k, w) == {b + k : b \in v} \cap (0 .. (w - 1))

\* a & b
And(a, b) == a \cap b

\* a ^ b
Xor(a, b) == (a \ b) \cup (b \ a)

\* a < b, unsigned
ULess(a, b) == a # b /\ Max(Xor(a, b)) \in b

\* int64(a) < int64(b)
SLess(a, b) ==
    IF (63 \in a) # (63 \in b) THEN 63 \in a ELSE ULess(a, b)

\* uint64(m) for m of type T = [bits, signed]: sign extension for signed T
Widen(m, t) ==
    IF t.signed /\ (t.bits - 1) \in m THEN m \cup (t.bits .. 63) ELSE m

\* value of hex digit k (bits 4k .. 4k+3) of m
Nibble(m, k) ==
    LET bitv(j) == IF (4 * k + j) \in m THEN 2 ^ j ELSE 0
    IN  bitv(0) + bitv(1) + bitv(2) + bitv(3)

HexDigits == "0123456789abcdef"

RECURSIVE HexFrom(_, _)
HexFrom(m, k) ==
    IF k < 0 THEN ""
    ELSE SubSeq(HexDigits, Nibble(m, k) + 1, Nibble(m, k) + 1) \o HexFrom(m, k - 1)

\* strconv.FormatUint(m, 16): lower-case hex without leading zeros, "0" for 0
FormatUint16(m) ==
    IF m = {} THEN "0" ELSE HexFrom(m, Max(m) \div 4)

-----------------------------------------------------------------------------
(* The generator: stringer.go (Value, byValue) and bitflag.go *)

\* Value: a declared constant.  The str field (the constant's decimal text, used
\* as the initial value of the decoder) is represented by the value itself.
Value(n, v, sg) == [name |-> n, value |-> v, signed |-> sg]

\* byValue.Less
Less(a, b) ==
    IF a.signed THEN SLess(a.value, b.value) ELSE ULess(a.value, b.value)

\* a faulty insertion that puts x before the elements equal to it (an unstable
\* sort): C14 must tell it apart
RECURSIVE InsertBeforeEqual(_, _)
InsertBeforeEqual(s, x) ==
    IF s = <<>> THEN <<x>>
    ELSE IF ~Less(s[Len(s)], x)
         THEN Append(InsertBeforeEqual(SubSeq(s, 1, Len(s) - 1), x), s[Len(s)])
    ELSE Append(s, x)

\* insertion of x behind every element that is not greater: keeps equal
\* elements in their input order
RECURSIVE InsertStable(_, _)
InsertStable(s, x) ==
    IF s = <<>> THEN <<x>>
    ELSE IF Less(x, s[Len(s)]) THEN Append(InsertStable(SubSeq(s, 1, Len(s) - 1), x), s[Len(s)])
    ELSE Append(s, x)

\* a faulty sort that leaves the values in declaration order: C21 must tell
\* it apart
keepDeclarationOrder(s) == s

\* sort.Stable(byValue(values))
RECURSIVE StableSort(_)
StableSort(s) ==
    IF s = <<>> THEN <<>>
    ELSE InsertStable(StableSort(SubSeq(s, 1, Len(s) - 1)), s[Len(s)])

\* v - 1 for v # 0: the lowest set bit is cleared and every bit below it set
Dec(v) == LET low == CHOOSE x \in v : \A y \in v : x <= y
          IN  (v \ {low}) \cup (0 .. (low - 1))

\* singleBitSet
singleBitSet(v) == v # {} /\ And(v, Dec(v)) = {}

\* a faulty zero removal that drops the first zero only ("if" for "for"; with
\* nothing left runs[0][0] panics): C15 must tell it apart
dropFirstZero(vs) ==
    IF Tail(vs) = <<>> THEN [panic |-> TRUE, vs |-> <<>>]
    ELSE [panic |-> FALSE, vs |-> Tail(vs)]

\* the leading-zero loop of splitIntoBitflagRuns: "for values[0].value == 0
\* { values = values[1:] }"; indexing the emptied slice panics
RECURSIVE dropZeros(_)
dropZeros(vs) ==
    IF vs = <<>> THEN [panic |-> TRUE, vs |-> <<>>]
    ELSE IF vs[1].value = {} THEN dropZeros(Tail(vs))
    ELSE [panic |-> FALSE, vs |-> vs]

\* the in-place duplicate/multi-bit removal loop: i runs from 1 (Go index) to
\* len-1, j counts the kept elements; vs is 1-based here, so Go's values[i]
\* is vs[i+1]
RECURSIVE dedup(_, _, _)
dedup(vs, i, j) ==
    IF i >= Len(vs) THEN SubSeq(vs, 1, j)
    ELSE IF vs[i + 1].value # vs[i].value /\ singleBitSet(vs[i + 1].value)
         THEN dedup([vs EXCEPT ![j + 1] = vs[i + 1]], i + 1, j + 1)
         ELSE dedup(vs, i + 1, j)

\* length of the contiguous sequence at the front of vs (inner loop)
RECURSIVE runLen(_, _)
runLen(vs, i) ==
    IF i < Len(vs) /\ vs[i + 1].value = Shl(vs[i].value, 1, W64)
    THEN runLen(vs, i + 1) ELSE i

\* the outer loop collecting the runs
RECURSIVE collectRuns(_)
collectRuns(vs) ==
    IF vs = <<>> THEN <<>>
    ELSE LET i == runLen(vs, 1)
         IN  <<SubSeq(vs, 1, i)>> \o collectRuns(SubSeq(vs, i + 1, Len(vs)))

NoValue == [name |-> "<nil>", value |-> {}, signed |-> FALSE]

\* splitIntoBitflagRuns: [panic, hasZero, zero, runs]
splitIntoBitflagRuns(vals) ==
    LET unsignedVals == [i \in 1 .. Len(vals) |-> [vals[i] EXCEPT !.signed = FALSE]]
        sorted == StableSort(unsignedVals)
        hasZero == sorted[1].value = {}
        dz == IF hasZero THEN dropZeros(sorted) ELSE [panic |-> FALSE, vs |-> sorted]
    IN  IF dz.panic
        THEN [panic |-> TRUE, hasZero |-> hasZero, zero |-> NoValue, runs |-> <<>>]
        ELSE [panic |-> FALSE,
              hasZero |-> hasZero,
              zero |-> IF hasZero THEN sorted[1] ELSE NoValue,
              runs |-> collectRuns(dedup(dz.vs, 1, 1))]

\* a faulty shiftCount that starts counting at 1: C17 must tell it apart
RECURSIVE shiftCountFromOne(_, _)
shiftCountFromOne(prev, next) ==
    IF ULess(prev, next) THEN 1 + shiftCountFromOne(Shl(prev, 1, W64), next) ELSE 1

\* shiftCount: number of times prev needs to be shifted to meet or exceed next
RECURSIVE shiftCount(_, _)
shiftCount(prev, next) ==
    IF ULess(prev, next) THEN 1 + shiftCount(Shl(prev, 1, W64), next) ELSE 0

\* runLastValue
runLastValue(run) == run[Len(run)]

\* the largest name length that fits the uint8 offset table
MaxNameLen == 255

\* a faulty inner loop without the "o > 255" test: C22 must tell it apart
RECURSIVE runNamesUnchecked(_, _)
runNamesUnchecked(run, i) ==
    IF i > Len(run) THEN [exit |-> FALSE, names |-> "", offsets |-> <<>>]
    ELSE LET rest == runNamesUnchecked(run, i + 1)
         IN  [exit |-> FALSE,
              names |-> run[i].name \o rest.names,
              offsets |-> <<Len(run[i].name)>> \o rest.offsets]

\* a faulty inner loop that records the end index of each name in the run
\* (as the index table of the plain stringer does) instead of its length: C19
\* must tell it apart
RECURSIVE prefixLen(_, _)
prefixLen(run, i) == IF i = 0 THEN 0 ELSE prefixLen(run, i - 1) + Len(run[i].name)

RECURSIVE runNamesAsIndex(_, _)
runNamesAsIndex(run, i) ==
    IF i > Len(run) THEN [exit |-> FALSE, names |-> "", offsets |-> <<>>]
    ELSE LET n == run[i].name
             rest == runNamesAsIndex(run, i + 1)
         IN  IF Len(n) > MaxNameLen THEN [exit |-> TRUE, names |-> "", offsets |-> <<>>]
             ELSE [exit |-> rest.exit,
                   names |-> n \o rest.names,
                   offsets |-> <<prefixLen(run, i)>> \o rest.offsets]

\* the inner loop of nameAndRest over one run: [exit, names, offsets]
RECURSIVE runNames(_, _)
runNames(run, i) ==
    IF i > Len(run) THEN [exit |-> FALSE, names |-> "", offsets |-> <<>>]
    ELSE LET n == run[i].name
             o == Len(n)
             rest == runNames(run, i + 1)
         IN  IF o > MaxNameLen THEN [exit |-> TRUE, names |-> "", offsets |-> <<>>]
             ELSE [exit |-> rest.exit,
                   names |-> n \o rest.names,
                   offsets |-> <<o>> \o rest.offsets]

\* nameAndRest: [exit, name, offsets, skips]; exit is os.Exit(1) on a long name
RECURSIVE nameAndRestFrom(_, _)
nameAndRestFrom(runs, r) ==
    IF r > Len(runs) THEN [exit |-> FALSE, name |-> "", offsets |-> <<>>, skips |-> <<>>]
    ELSE LET one == runNames(runs[r], 1)
             gap == r < Len(runs)
             rest == nameAndRestFrom(runs, r + 1)
         IN  IF one.exit \/ rest.exit
             THEN [exit |-> TRUE, name |-> "", offsets |-> <<>>, skips |-> <<>>]
             ELSE [exit |-> FALSE,
                   name |-> one.names \o rest.name,
                   offsets |-> one.offsets \o (IF gap THEN <<0>> ELSE <<>>) \o rest.offsets,
                   skips |-> (IF gap
                              THEN <<shiftCount(runLastValue(runs[r]).value,
                                                runs[r + 1][1].value) - 1>>
                              ELSE <<>>) \o rest.skips]

nameAndRest(runs) == nameAndRestFrom(runs, 1)

\* the type name of the flag type
TypeName == "T"

\* buildBitflag: the emitted artifact.  status is "built", or "panic" (index out
\* of range in splitIntoBitflagRuns) or "exit" (os.Exit(1) in nameAndRest);
\* code names the String template chosen; declSkips / declCache say whether
\* the skips array and the cache variables are declared.
NoArt ==
    [status |-> "none", code |-> "", typename |-> "", zero |-> "", first |-> {},
     firstNeg |-> FALSE, names |-> "", offsets |-> <<>>, skips |-> <<>>,
     declSkips |-> FALSE, declCache |-> FALSE]

\* the text of the constant (Value.str) starts with "-": the constant was
\* declared with a negative value of a signed type (the text is not changed
\* when splitIntoBitflagRuns clears the signed field)
Negative(v) == v.signed /\ (W64 - 1) \in v.value

buildBitflag(vals, typeName, gf) ==
    LET sp == splitIntoBitflagRuns(vals)
        zeroName == IF sp.hasZero THEN sp.zero.name ELSE typeName \o "(0)"
        nr == nameAndRest(sp.runs)
        code == IF gf.table
                THEN (IF gf.cache THEN "stringBitflagTableDrivenCached"
                                  ELSE "stringBitflagTableDrivenNotCached")
                ELSE IF gf.cache
                THEN (IF Len(nr.skips) = 0 THEN "stringBitflagCacheCode"
                                           ELSE "stringBitflagCacheCodeWithSkips")
                ELSE (IF Len(nr.skips) = 0 THEN "stringBitflagCode"
                                           ELSE "stringBitflagCodeWithSkips")
    IN  IF sp.panic THEN [NoArt EXCEPT !.status = "panic"]
        ELSE IF nr.exit THEN [NoArt EXCEPT !.status = "exit"]
        ELSE [status |-> "built",
              code |-> code,
              typename |-> typeName,
              zero |-> zeroName,
              first |-> sp.runs[1][1].value,
              firstNeg |-> \E i \in 1 .. Len(vals) :
                              /\ vals[i].name = sp.runs[1][1].name
                              /\ vals[i].value = sp.runs[1][1].value
                              /\ Negative(vals[i]),
              names |-> nr.name,
              offsets |-> nr.offsets,
              skips |-> nr.skips,
              declSkips |-> Len(nr.skips) # 0,
              declCache |-> gf.cache]

-----------------------------------------------------------------------------
(* The generated code: the decode loop shared by all String templates *)

U64 == [bits |-> W64, signed |-> FALSE]

\* the code after the loop: the numeric rest, bare or appended to b
loopTail(a, t, b, m) ==
    LET s == a.typename \o "(0x" \o FormatUint16(Widen(m, t)) \o ")"
    IN  IF Len(b) = 0 THEN s ELSE b \o "|" \o s \o ")"

Panicked == [panic |-> TRUE, s |-> ""]

Returned(s) == [panic |-> FALSE, s |-> s]

\* the for loop of the String templates and of _stringerBitflag.mstring, from
\* loop state st = [i, v, si, p0, p1, b, m]; t is the type of m and v
\* (uint64 for the shared routine), withSkips tells whether the template has
\* the "o == 0" branch.  The result is the returned string, or a panic
\* (index out of range).
RECURSIVE bitflagLoop(_, _, _, _)
bitflagLoop(a, t, withSkips, st) ==
    IF st.i >= Len(a.offsets) THEN Returned(loopTail(a, t, st.b, st.m))
    ELSE
    LET o == a.offsets[st.i + 1]
        continue(st2) ==
            bitflagLoop(a, t, withSkips,
                        [st2 EXCEPT !.i = @ + 1, !.v = Shl(@, 1, t.bits)])
    IN  IF withSkips /\ o = 0
        THEN IF st.si >= Len(a.skips) THEN Panicked
             ELSE continue([st EXCEPT !.v = Shl(@, (a.skips[st.si + 1] - 1) % 256, t.bits),
                                      !.si = @ + 1])
        ELSE
        LET p0 == st.p1
            p1 == st.p1 + o
            st1 == [st EXCEPT !.p0 = p0, !.p1 = p1]
        IN  IF And(st.v, st.m) = {} THEN continue(st1)
            ELSE
            LET m2 == Xor(st.m, st.v)
                nm == SubSeq(a.names, p0 + 1, p1)
                b2 == (IF Len(st.b) = 0 THEN "(" ELSE st.b \o "|") \o nm
            IN  IF p1 > Len(a.names) THEN Panicked
                ELSE IF Len(st.b) = 0 /\ m2 = {} THEN Returned(nm)
                ELSE IF m2 = {} THEN Returned(b2 \o ")")
                ELSE continue([st1 EXCEPT !.b = b2, !.m = m2])

IsTableDriven(a) ==
    a.code \in {"stringBitflagTableDrivenCached", "stringBitflagTableDrivenNotCached"}

\* the conversion T(initialValue) of the String templates ("v := T(%[5]s)"):
\* the constant's bit pattern in the width of T
Convert(first, t) == first \cap (0 .. (t.bits - 1))

\* the emitted code compiles: the table-driven templates convert the text of
\* the first constant by uint64(initialValue), which the compiler rejects for
\* a negative constant (the per-type templates convert it to T)
Compiles(a) == ~(IsTableDriven(a) /\ a.firstNeg)

loopInit(a, t, m) ==
    [i |-> 0, v |-> Convert(a.first, t), si |-> 0, p0 |-> 0, p1 |-> 0, b |-> "", m |-> m]

\* a faulty mstring, without the "if m == 0" return: C3 must tell it apart
mstringNoZeroReturn(sb, m) == bitflagLoop(sb, U64, TRUE, loopInit(sb, U64, m))

\* func (sb *_stringerBitflag) mstring(m uint64) string
mstring(sb, m) ==
    IF m = {} THEN Returned(sb.zero) ELSE bitflagLoop(sb, U64, TRUE, loopInit(sb, U64, m))

\* the String method of stringBitflagCode (and _string of stringBitflagCacheCode):
\* no gap branch
stringBitflagCode(a, t, m) ==
    IF m = {} THEN Returned(a.zero) ELSE bitflagLoop(a, t, FALSE, loopInit(a, t, m))

\* the String method of stringBitflagCodeWithSkips (and _string of
\* stringBitflagCacheCodeWithSkips)
stringBitflagCodeWithSkips(a, t, m) ==
    IF m = {} THEN Returned(a.zero) ELSE bitflagLoop(a, t, TRUE, loopInit(a, t, m))

IsCached(a) ==
    a.code \in {"stringBitflagTableDrivenCached", "stringBitflagCacheCode",
                "stringBitflagCacheCodeWithSkips"}

\* the uncached decode routine of the artifact applied to m of type t: String
\* itself (uncached templates), _string (cached templates), or
\* _T_stringer.mstring(uint64(m)) (table driven)
decode(a, t, m) ==
    IF IsTableDriven(a) THEN mstring(a, Widen(m, t))
    ELSE IF a.code \in {"stringBitflagCode", "stringBitflagCacheCode"}
    THEN stringBitflagCode(a, t, m)
    ELSE stringBitflagCodeWithSkips(a, t, m)

-----------------------------------------------------------------------------
(* State of the generated program: goroutines calling String *)

\* the goroutines
Threads == {"g1", "g2"}

\* the cache variable: nil tells an unmade map (table-driven, before the first
\* insert), map is the map's content
NilMap == [nil |-> TRUE, map |-> [k \in {} |-> ""]]
MadeMap(f) == [nil |-> FALSE, map |-> f]
None == "none"
\* a return of String: the string, and the path taken: "zero" (the table-driven
\* early return), "hit", "miss" (computed and inserted) or "direct" (uncached)
NoRet == [set |-> FALSE, s |-> "", via |-> ""]
Ret(s, via) == [set |-> TRUE, s |-> s, via |-> via]
NoLoc == [s |-> "", ok |-> FALSE]
EmptyMap == MadeMap([k \in {} |-> ""])

\* a faulty key that keeps only the low byte of the mask (a cache keyed by
\* uint8(m)): C11 must tell it apart
KeyLowByte(a, t, m) == (IF IsTableDriven(a) THEN Widen(m, t) ELSE m) \cap (0 .. 7)

\* the key under which String caches m: the table-driven String widens m to
\* uint64 first, the per-type cache is a map[T]string
Key(a, t, m) == IF IsTableDriven(a) THEN Widen(m, t) ELSE m

\* len(cache)
CacheLen(c) == Cardinality(DOMAIN c.map)

\* entry of String with receiver m.  Uncached templates run the loop at once;
\* the table-driven cached mstring returns the zero name before any lock.
Call(t, m) ==
    /\ gen = "built"
    /\ Compiles(art)
    /\ pc[t] = "idle"
    /\ arg' = [arg EXCEPT ![t] = m]
    /\ loc' = [loc EXCEPT ![t] = NoLoc]
    /\ IF IsCached(art) /\ IsTableDriven(art) /\ Widen(m, typ) = {}
       THEN /\ ret' = [ret EXCEPT ![t] = Ret(art.zero, "zero")]
            /\ pc' = pc
       ELSE /\ ret' = [ret EXCEPT ![t] = NoRet]
            /\ pc' = [pc EXCEPT ![t] = IF IsCached(art) THEN "rlock" ELSE "compute"]
    /\ UNCHANGED <<batch, typ, values, g, gen, art, cached, mu>>

\* mu.RLock()
RLock(t) ==
    /\ pc[t] = "rlock"
    /\ mu.writer = None
    /\ mu' = [mu EXCEPT !.readers = @ \cup {t}]
    /\ pc' = [pc EXCEPT ![t] = "lookup"]
    /\ UNCHANGED <<batch, typ, values, g, gen, art, cached, arg, loc, ret, nfresh>>

\* s, ok = cache[m] (guarded by "cached != nil" in the table-driven routine)
Lookup(t) ==
    /\ pc[t] = "lookup"
    /\ LET k == Key(art, typ, arg[t])
       IN  loc' = [loc EXCEPT ![t] =
                     IF ~cached.nil /\ k \in DOMAIN cached.map
                     THEN [s |-> cached.map[k], ok |-> TRUE]
                     ELSE [s |-> "", ok |-> FALSE]]
    /\ pc' = [pc EXCEPT ![t] = "runlock"]
    /\ UNCHANGED <<batch, typ, values, g, gen, art, cached, mu, arg, ret, nfresh>>

\* a faulty RUnlock step that goes on without giving the read lock back: C24
\* must tell it apart
RUnlockKeeping(t) ==
    /\ pc[t] = "runlock"
    /\ IF loc[t].ok
       THEN /\ ret' = [ret EXCEPT ![t] = Ret(loc[t].s, "hit")]
            /\ pc' = [pc EXCEPT ![t] = "idle"]
            /\ loc' = [loc EXCEPT ![t] = NoLoc]
       ELSE /\ pc' = [pc EXCEPT ![t] = "compute"]
            /\ UNCHANGED <<ret, loc>>
    /\ UNCHANGED <<batch, typ, values, g, gen, art, cached, mu, arg, nfresh>>

\* mu.RUnlock(); if ok { return s }
RUnlock(t) ==
    /\ pc[t] = "runlock"
    /\ mu' = [mu EXCEPT !.readers = @ \ {t}]
    /\ IF loc[t].ok
       THEN /\ ret' = [ret EXCEPT ![t] = Ret(loc[t].s, "hit")]
            /\ pc' = [pc EXCEPT ![t] = "idle"]
            /\ loc' = [loc EXCEPT ![t] = NoLoc]
       ELSE /\ pc' = [pc EXCEPT ![t] = "compute"]
            /\ UNCHANGED <<ret, loc>>
    /\ UNCHANGED <<batch, typ, values, g, gen, art, cached, arg, nfresh>>

\* s = m._string() / s = c.sb.mstring(m) on a miss, or the whole uncached
\* String; an index out of range panic ends the goroutine (and the program)
Compute(t) ==
    /\ pc[t] = "compute"
    /\ LET r == decode(art, typ, arg[t])
       IN  IF r.panic
           THEN /\ pc' = [pc EXCEPT ![t] = "panicked"]
                /\ UNCHANGED <<loc, ret>>
           ELSE IF IsCached(art)
           THEN /\ loc' = [loc EXCEPT ![t] = [s |-> r.s, ok |-> FALSE]]
                /\ pc' = [pc EXCEPT ![t] = "lock"]
                /\ UNCHANGED ret
           ELSE /\ ret' = [ret EXCEPT ![t] = Ret(r.s, "direct")]
                /\ pc' = [pc EXCEPT ![t] = "idle"]
                /\ UNCHANGED loc
    /\ UNCHANGED <<batch, typ, values, g, gen, art, cached, mu, arg, nfresh>>

\* a faulty Lock that does not wait for the readers to leave: C9 must tell
\* it apart
LockIgnoringReaders(t) ==
    /\ pc[t] = "lock"
    /\ mu.writer = None
    /\ mu' = [mu EXCEPT !.writer = t]
    /\ pc' = [pc EXCEPT ![t] = "insert"]
    /\ UNCHANGED <<batch, typ, values, g, gen, art, cached, arg, loc, ret, nfresh>>

\* mu.Lock()
Lock(t) ==
    /\ pc[t] = "lock"
    /\ mu.writer = None
    /\ mu.readers = {}
    /\ mu' = [mu EXCEPT !.writer = t]
    /\ pc' = [pc EXCEPT ![t] = "insert"]
    /\ UNCHANGED <<batch, typ, values, g, gen, art, cached, arg, loc, ret, nfresh>>

\* a faulty insertion that tests the capacity after storing the entry, and so
\* flushes the entry it has just stored: C12 must tell it apart
insertedThenFlush(c, k, s) ==
    LET base == IF c.nil THEN EmptyMap ELSE c
        full == MadeMap([x \in DOMAIN base.map \cup {k} |-> IF x = k THEN s ELSE base.map[x]])
    IN  IF CacheLen(full) > capCache THEN EmptyMap ELSE full

\* a faulty insertion that flushes one entry too late ("len(cache) > capCache"):
\* C8 must tell it apart
insertedLateFlush(c, k, s) ==
    LET base == IF c.nil \/ CacheLen(c) > capCache THEN EmptyMap ELSE c
    IN  MadeMap([x \in DOMAIN base.map \cup {k} |-> IF x = k THEN s ELSE base.map[x]])

\* a faulty insertion that makes room in a full cache by deleting one entry
\* instead of all of them: C29 must tell it apart
insertedEvictingOne(c, k, s) ==
    LET base == IF c.nil THEN EmptyMap
                ELSE IF CacheLen(c) >= capCache
                THEN LET victim == CHOOSE x \in DOMAIN c.map : TRUE
                     IN  MadeMap([x \in DOMAIN c.map \ {victim} |-> c.map[x]])
                ELSE c
    IN  MadeMap([x \in DOMAIN base.map \cup {k} |-> IF x = k THEN s ELSE base.map[x]])

\* the map after "if len(cache) >= capCache { cache = make(...) }; cache[m] = s"
\* (the table-driven routine also makes the map when it is still nil)
inserted(c, k, s) ==
    LET base == IF c.nil \/ CacheLen(c) >= capCache THEN EmptyMap ELSE c
    IN  MadeMap([x \in DOMAIN base.map \cup {k} |-> IF x = k THEN s ELSE base.map[x]])

\* a faulty insertion that files the string under the mask without its
\* lowest flag bit: C26 must tell it apart
InsertOtherKey(t) ==
    /\ pc[t] = "insert"
    /\ cached' = inserted(cached, Key(art, typ, arg[t]) \ {0}, loc[t].s)
    /\ pc' = [pc EXCEPT ![t] = "unlock"]
    /\ UNCHANGED <<batch, typ, values, g, gen, art, mu, arg, loc, ret, nfresh>>

\* the flush check and the insertion, under the write lock
Insert(t) ==
    /\ pc[t] = "insert"
    /\ cached' = inserted(cached, Key(art, typ, arg[t]), loc[t].s)
    /\ pc' = [pc EXCEPT ![t] = "unlock"]
    /\ UNCHANGED <<batch, typ, values, g, gen, art, mu, arg, loc, ret, nfresh>>

\* a faulty miss path that returns the looked-up s (still "") instead of the
\* computed one: C10 must tell it apart
UnlockReturningLookup(t) ==
    /\ pc[t] = "unlock"
    /\ mu' = [mu EXCEPT !.writer = None]
    /\ ret' = [ret EXCEPT ![t] = Ret(NoLoc.s, "miss")]
    /\ loc' = [loc EXCEPT ![t] = NoLoc]
    /\ pc' = [pc EXCEPT ![t] = "idle"]
    /\ UNCHANGED <<batch, typ, values, g, gen, art, cached, arg, nfresh>>

\* a faulty return of the miss path that leaves the write lock held: C28
\* must tell it apart
UnlockKeeping(t) ==
    /\ pc[t] = "unlock"
    /\ ret' = [ret EXCEPT ![t] = Ret(loc[t].s, "miss")]
    /\ loc' = [loc EXCEPT ![t] = NoLoc]
    /\ pc' = [pc EXCEPT ![t] = "idle"]
    /\ UNCHANGED <<batch, typ, values, g, gen, art, cached, mu, arg, nfresh>>

\* mu.Unlock(); return s
Unlock(t) ==
    /\ pc[t] = "unlock"
    /\ mu' = [mu EXCEPT !.writer = None]
    /\ ret' = [ret EXCEPT ![t] = Ret(loc[t].s, "miss")]
    /\ loc' = [loc EXCEPT ![t] = NoLoc]
    /\ pc' = [pc EXCEPT ![t] = "idle"]
    /\ UNCHANGED <<batch, typ, values, g, gen, art, cached, arg, nfresh>>

\* no run of genFile over several types is modelled
NoBatch == [types |-> <<>>, next |-> 1, buf |-> <<>>, file |-> <<>>, status |-> "none"]

\* Generator.generate for a bitflag type: values is non-empty, buildBitflag runs
Generate ==
    /\ gen = "input"
    /\ Len(values) # 0
    /\ art' = buildBitflag(values, TypeName, g)
    /\ gen' = art'.status
    /\ cached' = IF art'.declCache /\ ~IsTableDriven(art') THEN EmptyMap ELSE NilMap
    /\ UNCHANGED <<batch, typ, values, g, mu, pc, arg, loc, ret, nfresh>>

-----------------------------------------------------------------------------
(* Spec: every input list, every packaging, one String call by one goroutine *)

Int8 == [bits |-> 8, signed |-> TRUE]

TypeKinds == {Int8, U64}

\* the constants a user's source may declare for T (non-negative values): zero
\* values, single-bit flags, a flag declared twice, a multi-bit constant, the top
\* bit of a uint64
Pool(t) ==
    {Value("Zero", {}, t.signed), Value("A", {0}, t.signed), Value("B", {1}, t.signed),
     Value("AB", {0, 1}, t.signed), Value("D", {3}, t.signed)}
    \cup (IF t = U64 THEN {Value("C", {2}, t.signed), Value("Top", {63}, t.signed)}
                     ELSE {Value("None", {}, t.signed), Value("A2", {0}, t.signed)})

\* constants as Generator.generate hands them over under -trimprefix=Flag when
\* the source declares Flag, FlagB, FlagD: the first name is trimmed to ""
TrimPool(t) ==
    {Value("", {0}, t.signed), Value("B", {1}, t.signed), Value("D", {3}, t.signed)}

\* the sequences of 1 .. n distinct elements of S
RECURSIVE Lists(_, _)
Lists(S, n) ==
    IF n = 0 THEN {<<>>}
    ELSE LET shorter == Lists(S, n - 1)
         IN  shorter \cup
             {Append(l, x) : l \in {l \in shorter : Len(l) = n - 1},
                             x \in S} 

NoDup(l) == \A i, j \in 1 .. Len(l) : i # j => l[i] # l[j]

Inputs(P) == {l \in Lists(P, MaxLen) : l # <<>> /\ NoDup(l)}

\* the masks a caller may hold in a T
Masks(t) == (SUBSET (0 .. 3)) \cup {{t.bits - 1}, {0, t.bits - 1}, {3, t.bits - 1}}

\* the masks tried on the cached packagings in Spec
FewMasks(t) == {{}, {0}, {0, 3}, {t.bits - 1}}

\* the state before generate runs; trimmed tells whether the names went
\* through -trimprefix
InitWith(trimmed) ==
    /\ typ \in TypeKinds
    /\ values \in Inputs(IF trimmed THEN TrimPool(typ) ELSE Pool(typ))
    /\ g \in [table : BOOLEAN, cache : BOOLEAN]
    /\ gen = "input"
    /\ art = NoArt
    /\ cached = NilMap
    /\ mu = [readers |-> {}, writer |-> None]
    /\ pc = [t \in Threads |-> "idle"]
    /\ arg = [t \in Threads |-> {}]
    /\ loc = [t \in Threads |-> NoLoc]
    /\ ret = [t \in Threads |-> NoRet]
    /\ nfresh = 0
    /\ batch = NoBatch

Init == InitWith(FALSE)

\* the one String call of Spec, by goroutine g1 on the fresh artifact
FirstCall ==
    /\ ret["g1"] = NoRet
    /\ \E m \in (IF g.cache THEN FewMasks(typ) ELSE Masks(typ)) : Call("g1", m)
    /\ UNCHANGED nfresh

Step(t) ==
    \/ RLock(t)
    \/ Lookup(t)
    \/ RUnlock(t)
    \/ Compute(t)
    \/ Lock(t)
    \/ Insert(t)
    \/ Unlock(t)

Next ==
    \/ Generate
    \/ FirstCall
    \/ Step("g1")

Spec == Init /\ [][Next]_vars

\* SpecTrim: the same, for the constants of TrimPool
InitTrim == InitWith(TRUE)

SpecTrim == InitTrim /\ [][Next]_vars

-----------------------------------------------------------------------------
(* SpecLong: as Spec, for constants with names of 255 and 256 bytes *)

X16 == "xxxxxxxxxxxxxxxx"
X64 == X16 \o X16 \o X16 \o X16

\* a name of 256 bytes and one of 255 bytes
Name256 == X64 \o X64 \o X64 \o X64
Name255 == SubSeq(Name256, 1, MaxNameLen)

\* constants with long names: the 256 byte name shares its bit with B, so it
\* is in the table only when it is declared before B
LongPool(t) ==
    {Value(Name255, {0}, t.signed), Value(Name256, {1}, t.signed),
     Value("B", {1}, t.signed), Value("D", {3}, t.signed)}

InitLong ==
    /\ typ \in TypeKinds
    /\ values \in Inputs(LongPool(typ))
    /\ g \in [table : BOOLEAN, cache : BOOLEAN]
    /\ gen = "input"
    /\ art = NoArt
    /\ cached = NilMap
    /\ mu = [readers |-> {}, writer |-> None]
    /\ pc = [t \in Threads |-> "idle"]
    /\ arg = [t \in Threads |-> {}]
    /\ loc = [t \in Threads |-> NoLoc]
    /\ ret = [t \in Threads |-> NoRet]
    /\ nfresh = 0
    /\ batch = NoBatch

SpecLong == InitLong /\ [][Next]_vars

-----------------------------------------------------------------------------
(* SpecBatch: one run of genFile over the types named on the command line *)

\* the most types named in one run
MaxTypes == 3

\* the flag types of the package: T2 has a flag with a 256 byte name, T4
\* declares that name after B, which has the same bit, so it is dropped
BatchDecls(t) ==
    {[name |-> "T1", consts |-> <<Value("A", {0}, t.signed), Value("B", {1}, t.signed)>>],
     [name |-> "T2", consts |-> <<Value(Name256, {1}, t.signed), Value("D", {3}, t.signed)>>],
     [name |-> "T3", consts |-> <<Value("D", {3}, t.signed)>>],
     [name |-> "T4", consts |-> <<Value("B", {1}, t.signed), Value(Name256, {1}, t.signed)>>]}

InitBatch ==
    /\ typ \in TypeKinds
    /\ values = <<>>
    /\ g \in [table : BOOLEAN, cache : BOOLEAN]
    /\ gen = "input"
    /\ art = NoArt
    /\ cached = NilMap
    /\ mu = [readers |-> {}, writer |-> None]
    /\ pc = [t \in Threads |-> "idle"]
    /\ arg = [t \in Threads |-> {}]
    /\ loc = [t \in Threads |-> NoLoc]
    /\ ret = [t \in Threads |-> NoRet]
    /\ nfresh = 0
    /\ \E ts \in Lists(BatchDecls(typ), MaxTypes) :
        /\ ts # <<>>
        /\ NoDup(ts)
        /\ batch = [types |-> ts, next |-> 1, buf |-> <<>>, file |-> <<>>,
                    status |-> "running"]

\* what the run of generate for the type in turn emits
BuiltNext == buildBitflag(batch.types[batch.next].consts, batch.types[batch.next].name, g)

\* a faulty loop body that leaves out a type that cannot be built and goes on
\* with the next one: C23 must tell it apart
GenerateTypeSkipping ==
    /\ batch.status = "running"
    /\ batch.next <= Len(batch.types)
    /\ batch' = [batch EXCEPT
                    !.next = @ + 1,
                    !.buf = IF BuiltNext.status = "built" THEN Append(@, BuiltNext) ELSE @]
    /\ UNCHANGED <<typ, values, g, gen, art, cached, mu, pc, arg, loc, ret, nfresh>>

\* one turn of genFile's loop: g.generate(info, typeName.Name()) appends the
\* type's code to the buffer, or ends the process (os.Exit(1) in
\* nameAndRest, a panic) and the buffer with it
GenerateType ==
    /\ batch.status = "running"
    /\ batch.next <= Len(batch.types)
    /\ batch' = IF BuiltNext.status = "built"
                THEN [batch EXCEPT !.next = @ + 1, !.buf = Append(@, BuiltNext)]
                ELSE [batch EXCEPT !.buf = <<>>, !.status = BuiltNext.status]
    /\ UNCHANGED <<typ, values, g, gen, art, cached, mu, pc, arg, loc, ret, nfresh>>

\* after the loop: ioutil.WriteFile(filename, g.format(), 0644)
WriteFile ==
    /\ batch.status = "running"
    /\ batch.next > Len(batch.types)
    /\ batch' = [batch EXCEPT !.file = batch.buf, !.status = "written"]
    /\ UNCHANGED <<typ, values, g, gen, art, cached, mu, pc, arg, loc, ret, nfresh>>

NextBatch == GenerateType \/ WriteFile

SpecBatch == InitBatch /\ [][NextBatch]_vars

-----------------------------------------------------------------------------
(* SpecCache: two goroutines calling the cached String of one built table *)

\* the constants of the flag type used by SpecCache: a zero name, a run of
\* two flags, a gap, a third flag
CacheValues ==
    <<Value("Zero", {}, FALSE), Value("A", {0}, FALSE), Value("B", {1}, FALSE),
      Value("D", {3}, FALSE)>>

\* the n-th fresh mask: the number n itself
FreshMask(n) == {b \in 0 .. 9 : (n \div (2 ^ b)) % 2 = 1}

\* the masks goroutine g2 asks for again and again
ProbeMasks == {{}, FreshMask(1), FreshMask(2)}

InitCache ==
    /\ typ = U64
    /\ values = CacheValues
    /\ g \in [table : BOOLEAN, cache : {TRUE}]
    /\ gen = "built"
    /\ art = buildBitflag(values, TypeName, g)
    /\ cached = IF g.table THEN NilMap ELSE EmptyMap
    /\ mu = [readers |-> {}, writer |-> None]
    /\ pc = [t \in Threads |-> "idle"]
    /\ arg = [t \in Threads |-> {}]
    /\ loc = [t \in Threads |-> NoLoc]
    /\ ret = [t \in Threads |-> NoRet]
    /\ nfresh = 0
    /\ batch = NoBatch

\* goroutine g1 prints a mask nobody has printed before
FillCall ==
    /\ nfresh < capCache + ExtraFresh
    /\ Call("g1", FreshMask(nfresh + 1))
    /\ nfresh' = nfresh + 1

\* goroutine g1 prints the mask of its last call again
RepeatCall ==
    /\ nfresh > 0
    /\ Call("g1", arg["g1"])
    /\ UNCHANGED nfresh

\* goroutine g2 prints one of a few masks
ProbeCall ==
    /\ \E m \in ProbeMasks : Call("g2", m)
    /\ UNCHANGED nfresh

NextCache ==
    \/ FillCall
    \/ RepeatCall
    \/ ProbeCall
    \/ \E t \in Threads : Step(t)

SpecCache == InitCache /\ [][NextCache]_vars

\* The scheduling a Go program has: a goroutine that can take a step takes
\* it, and a goroutine blocked in RLock or Lock gets the lock once it is free
\* often enough (sync.RWMutex wakes blocked readers at Unlock, and a blocked
\* Lock call keeps new readers out): strong fairness of every goroutine's
\* steps, which are always enabled but at RLock and Lock.  Nothing obliges a
\* caller to call String.
FairCache == \A t \in Threads : SF_vars(Step(t))

\* the state of SpecCache in which goroutine g1 has printed the first
\* capCache - 1 fresh masks, one call after the other, and g2 has not called
\* yet: the cache is one entry short of full
InitNearFull ==
    /\ typ = U64
    /\ values = CacheValues
    /\ g \in [table : BOOLEAN, cache : {TRUE}]
    /\ gen = "built"
    /\ art = buildBitflag(values, TypeName, g)
    /\ cached = MadeMap([k \in {FreshMask(n) : n \in 1 .. capCache - 1} |->
                            decode(art, typ, k).s])
    /\ mu = [readers |-> {}, writer |-> None]
    /\ pc = [t \in Threads |-> "idle"]
    /\ arg = [t \in Threads |-> IF t = "g1" THEN FreshMask(capCache - 1) ELSE {}]
    /\ loc = [t \in Threads |-> NoLoc]
    /\ ret = [t \in Threads |->
                IF t = "g1"
                THEN Ret(decode(art, typ, FreshMask(capCache - 1)).s, "miss")
                ELSE NoRet]
    /\ nfresh = capCache - 1
    /\ batch = NoBatch

\* goroutine g1 prints the fresh mask that fills the cache, then the one that
\* flushes it
FlushCall ==
    /\ nfresh <= capCache
    /\ Call("g1", FreshMask(nfresh + 1))
    /\ nfresh' = nfresh + 1

\* goroutine g2 prints the first mask g1 printed: a hit until the flush
HitOrMissCall ==
    /\ Call("g2", FreshMask(1))
    /\ UNCHANGED nfresh

NextCacheFair ==
    \/ FlushCall
    \/ RepeatCall
    \/ HitOrMissCall
    \/ \E t \in Threads : Step(t)

SpecCacheFair == InitNearFull /\ [][NextCacheFair]_vars /\ FairCache

-----------------------------------------------------------------------------
(* SpecSeq: one goroutine calling the cached String, one call after another *)

\* the goroutine prints one of a few masks
SeqProbe ==
    /\ \E m \in ProbeMasks : Call("g1", m)
    /\ UNCHANGED nfresh

\* goroutine g1 alone: it calls String with a fresh mask, with the mask of its
\* last call or with one of a few masks, and runs each call step by step
NextSeq ==
    \/ FillCall
    \/ RepeatCall
    \/ SeqProbe
    \/ Step("g1")

SpecSeq == InitCache /\ [][NextSeq]_vars

-----------------------------------------------------------------------------
(* Vocabulary of the properties *)

\* the String call of goroutine t has ended (returned or panicked)
Finished(t) == pc[t] = "panicked" \/ (pc[t] = "idle" /\ ret[t].set)

\* how it ended
Outcome(t) == IF pc[t] = "panicked" THEN Panicked ELSE Returned(ret[t].s)

RECURSIVE Flatten(_)
Flatten(runs) == IF runs = <<>> THEN <<>> ELSE Head(runs) \o Flatten(Tail(runs))

\* the surviving flags of the input, in table order
Survivors == Flatten(splitIntoBitflagRuns(values).runs)

\* the bits of the flags with indices I, and all flag bits
BitsOf(I) == UNION {Survivors[i].value : i \in I}
AllFlagBits == BitsOf(1 .. Len(Survivors))

\* the names of the flags with indices I, ascending, joined by "|"
RECURSIVE JoinFrom(_, _)
JoinFrom(I, i) ==
    IF i > Len(Survivors) THEN ""
    ELSE IF i \notin I THEN JoinFrom(I, i + 1)
    ELSE LET rest == JoinFrom(I, i + 1)
         IN  Survivors[i].name \o (IF \E k \in I : k > i THEN "|" ELSE "") \o rest

Joined(I) == JoinFrom(I, 1)

\* the single-bit flags among the survivors
SingleFlags == {i \in 1 .. Len(Survivors) : singleBitSet(Survivors[i].value)}

\* the numeric rendering of a rest
Numeric(m) == TypeName \o "(0x" \o FormatUint16(m) \o ")"

-----------------------------------------------------------------------------
(* Properties *)

\* C1 (as claimed): a mask that is the OR of two or more distinct surviving
\* single-bit flags prints as "(" + their names in ascending bit order, joined
\* by "|" + ")".
C1_TwoOrMoreFlags ==
    \A t \in Threads :
        (gen = "built" /\ Finished(t)) =>
            \A I \in SUBSET SingleFlags :
                (Cardinality(I) >= 2 /\ BitsOf(I) = arg[t]) =>
                    Outcome(t) = Returned("(" \o Joined(I) \o ")")

\* C2 (as claimed): the mask holding exactly the bit of a surviving flag prints
\* as that flag's bare name.
C2_SingleFlagBare ==
    \A t \in Threads :
        (gen = "built" /\ Finished(t)) =>
            \A i \in SingleFlags :
                Survivors[i].value = arg[t] => Outcome(t) = Returned(Survivors[i].name)

\* C3: in every packaging String of the zero mask returns the table's zero
\* name (and does not panic).
C3_ZeroName ==
    \A t \in Threads :
        (gen = "built" /\ arg[t] = {}) =>
            /\ pc[t] # "panicked"
            /\ ret[t].set => ret[t].s = art.zero

\* C3 witness: a zero mask went through the per-type cache wrapper and came
\* back as the declared zero name.
C3_Witness ==
    /\ gen = "built" /\ art.code = "stringBitflagCacheCode"
    /\ arg["g1"] = {} /\ ret["g1"].set /\ ret["g1"].via = "miss"
    /\ ret["g1"].s = "Zero"

\* C4 (as claimed): a non-zero mask without any bit of a surviving flag prints
\* as the bare numeric form.
C4_NoFlagBit ==
    \A t \in Threads :
        (gen = "built" /\ Finished(t)) =>
            ((arg[t] # {} /\ And(arg[t], AllFlagBits) = {}) =>
                Outcome(t) = Returned(Numeric(Widen(arg[t], typ))))

\* C5 (as claimed): a mask with flag bits and other bits prints the matched
\* names, then the numeric form of exactly the other bits, in parentheses.
\* (Stated for masks that hold each surviving flag wholly or not at all.)
C5_FlagsAndRest ==
    \A t \in Threads :
        (gen = "built" /\ Finished(t)) =>
            LET mask == Widen(arg[t], typ)
                I == {i \in 1 .. Len(Survivors) : Survivors[i].value \subseteq mask}
                rest == mask \ AllFlagBits
            IN  (/\ I # {}
                 /\ rest # {}
                 /\ \A i \in 1 .. Len(Survivors) :
                        i \in I \/ And(Survivors[i].value, mask) = {}) =>
                    Outcome(t) = Returned("(" \o Joined(I) \o "|" \o Numeric(rest) \o ")")

\* C6 (as claimed): decode is total, no String call ends in an index out of
\* range panic.
C6_Total == \A t \in Threads : pc[t] # "panicked"

\* C7 (as claimed): the call made on the emitted packaging ends exactly as the
\* uncached routine of the other packaging (table-driven against per-type)
\* does on the same input and mask.
C7_SamePackagingOutput ==
    \A t \in Threads :
        (gen = "built" /\ Finished(t)) =>
            LET other == buildBitflag(values, TypeName, [g EXCEPT !.table = ~g.table])
            IN  Outcome(t) = decode(other, typ, arg[t])

\* C8: the cache never holds more than capCache (256) entries, and an
\* insertion made while it holds capCache entries leaves exactly one entry,
\* the key just inserted.
C8_CacheBounded ==
    /\ [](CacheLen(cached) <= capCache)
    /\ [][\A t \in Threads :
            (pc[t] = "insert" /\ pc'[t] = "unlock" /\ CacheLen(cached) >= capCache) =>
                (/\ DOMAIN cached'.map = {Key(art, typ, arg[t])}
                 /\ CacheLen(cached') = 1)]_vars

\* C8 witness: a goroutine has just inserted into a cache that was full, and
\* the cache holds one entry.
C8_Witness ==
    /\ nfresh > capCache
    /\ \E t \in Threads :
        /\ pc[t] = "unlock"
        /\ DOMAIN cached.map = {Key(art, typ, arg[t])}

\* the goroutine is inside the read / the write critical section
InRead(t) == pc[t] \in {"lookup", "runlock"}
InWrite(t) == pc[t] \in {"insert", "unlock"}

\* C9: the cache is written (insert, flush) only by a goroutine holding the
\* exclusive lock, and while one is inside the write section no other
\* goroutine is inside a read or write section; lookups hold the read lock.
C9_WriteExclusive ==
    /\ [](\A t \in Threads :
            /\ InWrite(t) =>
                    /\ mu.writer = t
                    /\ mu.readers = {}
                    /\ \A u \in Threads \ {t} : ~InRead(u) /\ ~InWrite(u)
            /\ InRead(t) => (t \in mu.readers /\ mu.writer = None))
    /\ [][cached' # cached =>
            \E t \in Threads : mu.writer = t /\ pc[t] = "insert" /\ pc'[t] = "unlock"]_vars

\* C9 witness: two lookups are inside their critical sections at once.
C9_Witness ==
    /\ InRead("g1") /\ InRead("g2")
    /\ mu.readers = Threads

\* the String call of t missed: it computed (or is about to insert, or has
\* inserted and returned) the string of its mask
Missed(t) ==
    \/ pc[t] \in {"lock", "insert", "unlock"}
    \/ pc[t] = "idle" /\ ret[t].set /\ ret[t].via = "miss"

\* the string the missed call holds or has returned
MissString(t) == IF pc[t] = "idle" THEN ret[t].s ELSE loc[t].s

\* C10: when two calls missed on the same mask, none panics, both hold (and
\* return) the string decode gives for the mask, an entry stored for the mask
\* has that value, and once both have returned the entry is there.
C10_SameMaskMisses ==
    \A t \in Threads : \A u \in Threads \ {t} :
        (Missed(t) /\ Missed(u) /\ arg[t] = arg[u]) =>
            LET k == Key(art, typ, arg[t])
                d == decode(art, typ, arg[t])
            IN  /\ ~d.panic
                /\ MissString(t) = d.s
                /\ MissString(u) = d.s
                /\ k \in DOMAIN cached.map => cached.map[k] = d.s
                /\ (pc[t] = "idle" /\ pc[u] = "idle") => k \in DOMAIN cached.map

\* C10 witness: g2 missed on a mask and waits for the write lock while g1,
\* which missed on the same mask, has inserted it and not yet returned.
C10_Witness ==
    /\ pc["g1"] = "unlock" /\ pc["g2"] = "lock"
    /\ arg["g1"] = arg["g2"]
    /\ Key(art, typ, arg["g1"]) \in DOMAIN cached.map

\* C11: whatever the interleaving (flushes included), a cached String call
\* returns the string the uncached decode routine gives for its own mask, so
\* two calls with the same mask return the same string.
C11_CachedEqualsDecode ==
    /\ \A t \in Threads :
        (pc[t] = "idle" /\ ret[t].set) =>
            LET d == decode(art, typ, arg[t])
            IN  ~d.panic /\ ret[t].s = d.s
    /\ \A t \in Threads : \A u \in Threads :
        (pc[t] = "idle" /\ ret[t].set /\ pc[u] = "idle" /\ ret[u].set
            /\ arg[t] = arg[u]) => ret[t].s = ret[u].s

\* C11 witness: g2 got a hit from a cache that has been flushed (g1 has
\* printed more than capCache distinct masks and few entries are left).
C11_Witness ==
    /\ nfresh > capCache
    /\ CacheLen(cached) <= 2
    /\ pc["g2"] = "idle" /\ ret["g2"].set /\ ret["g2"].via = "hit"
    /\ ret["g2"].s = decode(art, typ, arg["g2"]).s

\* goroutine t is in the read section or about to enter it, and the entry of
\* its mask is in the cache: the call can only return by a hit
HitBound(t) ==
    /\ pc[t] \in {"rlock", "lookup", "runlock"}
    /\ Key(art, typ, arg[t]) \in DOMAIN cached.map
    /\ pc[t] = "runlock" => (loc[t].ok /\ loc[t].s = cached.map[Key(art, typ, arg[t])])

\* C12: with calls made one after another, a String(m) call that follows a
\* completed String(m) call directly does not invoke the decode routine and
\* leaves the cache as it is: it returns the zero name at once, or it starts
\* with the entry of m in the cache, holding the string returned before, and
\* every step of a call with its entry in the cache leaves the cache alone
\* and ends in the read section again or in the return of the entry by a
\* hit (so the call never gets to the decode routine).
C12_RepeatDoesNotDecode ==
    [][/\ (pc["g1"] = "idle" /\ ret["g1"].set /\ arg'["g1"] = arg["g1"]) =>
            /\ cached' = cached
            /\ \/ /\ pc'["g1"] = "idle"
                  /\ ret'["g1"].set /\ ret'["g1"].via = "zero"
                  /\ ret'["g1"].s = ret["g1"].s
               \/ /\ HitBound("g1")'
                  /\ cached.map[Key(art, typ, arg["g1"])] = ret["g1"].s
       /\ HitBound("g1") =>
            /\ cached' = cached
            /\ \/ HitBound("g1")'
               \/ /\ pc'["g1"] = "idle"
                  /\ ret'["g1"].set /\ ret'["g1"].via = "hit"
                  /\ ret'["g1"].s = cached.map[Key(art, typ, arg["g1"])]]_vars

\* C12 witness: the repeated call of a mask whose first call flushed the
\* full cache has returned by a hit.
C12_Witness ==
    /\ nfresh > capCache
    /\ pc["g1"] = "idle"
    /\ arg["g1"] = FreshMask(nfresh)
    /\ CacheLen(cached) = 1
    /\ ret["g1"].set /\ ret["g1"].via = "hit"

\* C13 (as claimed): every value in every run returned by
\* splitIntoBitflagRuns has exactly one bit set (entries with several bits
\* set are dropped without an error).
C13_RunsSingleBit ==
    gen = "built" =>
        \A i \in 1 .. Len(Survivors) : singleBitSet(Survivors[i].value)

\* the input entries with value v, and the one declared first among them
DeclaredWith(v) == {i \in 1 .. Len(values) : values[i].value = v}
FirstDeclared(v) ==
    values[CHOOSE i \in DeclaredWith(v) : \A k \in DeclaredWith(v) : i <= k]

\* the positions of value v in the flattened runs sv
KeptIn(sv, v) == {j \in 1 .. Len(sv) : sv[j].value = v}

\* the positions of value v in the runs
KeptWith(v) == KeptIn(Survivors, v)

\* C14: every single-bit value of the input appears in the runs exactly once,
\* under the name of the entry declared first with that value.
C14_FirstDeclaredKept ==
    gen = "built" =>
        LET sv == Survivors
        IN  \A i \in 1 .. Len(values) :
                singleBitSet(values[i].value) =>
                    LET kept == KeptIn(sv, values[i].value)
                    IN  /\ Cardinality(kept) = 1
                        /\ \A j \in kept :
                               sv[j].name = FirstDeclared(values[i].value).name

\* C14 witness: A2 and A are declared with the same bit, A2 first, and the
\* table built holds A2 for it.
C14_Witness ==
    /\ gen = "built"
    /\ Len(values) >= 2
    /\ values[1].name = "A2"
    /\ \E i \in 2 .. Len(values) : values[i].name = "A"
    /\ \E j \in KeptWith({0}) : Survivors[j].name = "A2"
    /\ art.names = "A2"

\* C15: the zero name of a built table is the name of the zero-valued entry
\* declared first, or typeName + "(0)" when none is declared, and no run holds
\* a zero-valued entry.
C15_ZeroNameChoice ==
    gen = "built" =>
        /\ art.zero = (IF DeclaredWith({}) # {} THEN FirstDeclared({}).name
                                                 ELSE TypeName \o "(0)")
        /\ KeptWith({}) = {}

\* C15 witness: None and Zero are both declared with value 0, None first, and
\* the table built has the zero name None.
C15_Witness ==
    /\ gen = "built"
    /\ \E i, k \in 1 .. Len(values) :
        i < k /\ values[i].name = "None" /\ values[k].name = "Zero"
    /\ art.zero = "None"
    /\ art.names # ""

\* the runs of the input
Runs == splitIntoBitflagRuns(values).runs

\* C16 (as claimed): read in order the values of the runs are strictly
\* ascending; inside a run each value is exactly twice the one before; the
\* first value of a later run is strictly greater than twice the last value
\* of the run before it.
C16_RunsSortedMaximal ==
    gen = "built" =>
        /\ \A i \in 1 .. (Len(Survivors) - 1) :
            ULess(Survivors[i].value, Survivors[i + 1].value)
        /\ \A r \in 1 .. Len(Runs) : \A i \in 1 .. (Len(Runs[r]) - 1) :
            /\ 63 \notin Runs[r][i].value
            /\ Runs[r][i + 1].value = Shl(Runs[r][i].value, 1, W64)
        /\ \A r \in 1 .. (Len(Runs) - 1) :
            /\ 63 \notin runLastValue(Runs[r]).value
            /\ ULess(Shl(runLastValue(Runs[r]).value, 1, W64), Runs[r + 1][1].value)

\* number of flags in the runs before run r
RECURSIVE RunStart(_, _)
RunStart(runs, r) == IF r <= 1 THEN 0 ELSE RunStart(runs, r - 1) + Len(runs[r - 1])

\* the index in offsets (from 1) of the entry appended after run r
GapPos(runs, r) == RunStart(runs, r + 1) + r

\* the bit position of a flag value (the position of its highest bit)
BitPos(v) == Max(v)

\* C17: for consecutive runs r, r+1 ending at bit a and starting at bit b,
\* nameAndRest appends one 0 to offsets behind the names of run r and the
\* skip b - a - 1; nothing is appended behind the last run.
C17_GapEntries ==
    gen = "built" =>
        LET runs == Runs
        IN  /\ Len(art.skips) = Len(runs) - 1
            /\ Len(art.offsets) = Len(Flatten(runs)) + Len(runs) - 1
            /\ \A r \in 1 .. (Len(runs) - 1) :
                /\ art.offsets[GapPos(runs, r)] = 0
                /\ art.skips[r] =
                       BitPos(runs[r + 1][1].value)
                           - BitPos(runLastValue(runs[r]).value) - 1
            /\ \A r \in 1 .. Len(runs) : \A i \in 1 .. Len(runs[r]) :
                art.offsets[RunStart(runs, r) + (r - 1) + i] = Len(runs[r][i].name)

\* C17 witness: three runs (bits 0, 3 and 63), two gaps with the skips 2 and 59.
C17_Witness ==
    /\ gen = "built"
    /\ Len(Runs) = 3
    /\ art.offsets = <<1, 0, 1, 0, 3>>
    /\ art.skips = <<2, 59>>

\* the number of entries of the sequence s that are 0
RECURSIVE CountZeros(_)
CountZeros(s) ==
    IF s = <<>> THEN 0
    ELSE (IF Head(s) = 0 THEN 1 ELSE 0) + CountZeros(Tail(s))

\* C18 (as claimed): in a built table skips has as many entries as offsets
\* has zeros (every name entry of offsets is non-zero), and with one run
\* skips is empty.
C18_SkipsMatchZeros ==
    gen = "built" =>
        /\ Len(art.skips) = CountZeros(art.offsets)
        /\ Len(Runs) = 1 => art.skips = <<>>

\* the names of the entries of s, concatenated
RECURSIVE NamesOf(_)
NamesOf(s) == IF s = <<>> THEN "" ELSE Head(s).name \o NamesOf(Tail(s))

\* the sum of the entries of s
RECURSIVE SumOf(_)
SumOf(s) == IF s = <<>> THEN 0 ELSE Head(s) + SumOf(Tail(s))

\* C19: the blob of a built table is the concatenation of the names of the
\* flags of the runs, which stand in ascending order of their values; the
\* entries of offsets sum up to the length of the blob; offsets has one entry
\* per flag and one per gap between runs.
C19_BlobAndOffsets ==
    gen = "built" =>
        LET runs == Runs
            sv == Flatten(runs)
        IN  /\ art.names = NamesOf(sv)
            /\ \A i \in 1 .. (Len(sv) - 1) : ULess(sv[i].value, sv[i + 1].value)
            /\ SumOf(art.offsets) = Len(art.names)
            /\ Len(art.offsets) = Len(sv) + (Len(runs) - 1)

\* C19 witness: D, B and A declared in descending order give the blob "ABD"
\* with the offsets of two runs and one gap.
C19_Witness ==
    /\ gen = "built"
    /\ Len(values) = 3
    /\ values[1].name = "D" /\ values[2].name = "B" /\ values[3].name = "A"
    /\ art.names = "ABD"
    /\ art.offsets = <<1, 1, 0, 1>>

\* C20 (as claimed): with one run no skips array is emitted and the per-type
\* String has no gap branch; with more runs the skips array and the
\* skip-aware String are emitted; on a table of one run the String without
\* the gap branch and the String with it return the same for the mask printed.
C20_OneRunSpecialization ==
    gen = "built" =>
        /\ Len(Runs) = 1 =>
            /\ ~art.declSkips
            /\ ~g.table => art.code \in {"stringBitflagCode", "stringBitflagCacheCode"}
        /\ Len(Runs) > 1 =>
            /\ art.declSkips
            /\ ~g.table => art.code \in {"stringBitflagCodeWithSkips",
                                         "stringBitflagCacheCodeWithSkips"}
        /\ \A t \in Threads :
            (Len(Runs) = 1 /\ Finished(t)) =>
                stringBitflagCode(art, typ, arg[t])
                    = stringBitflagCodeWithSkips(art, typ, arg[t])

\* the rearrangements of the list s
Perms(s) ==
    LET n == Len(s)
        idx == {f \in [1 .. n -> 1 .. n] : \A i, k \in 1 .. n : i # k => f[i] # f[k]}
    IN  {[i \in 1 .. n |-> s[f[i]]] : f \in idx}

\* the values of the list s are pairwise distinct
DistinctValues(s) == \A i, k \in 1 .. Len(s) : i # k => s[i].value # s[k].value

\* C21: when generate builds the table of a list whose flags have pairwise
\* distinct values, every rearrangement of the list gives the same artifact
\* (zero name, first bit, blob, offsets, skips, String code), so the decoded
\* strings do not depend on the declaration order.
C21_OrderIndependent ==
    [][(gen = "input" /\ gen' = "built" /\ DistinctValues(values)) =>
            \A p \in Perms(values) : buildBitflag(p, TypeName, g) = art']_vars

\* C21 witness: Top and A are declared in descending order and a third
\* constant before them; the table lists the names by ascending bit.
C21_Witness ==
    /\ gen = "built"
    /\ DistinctValues(values)
    /\ Len(values) = 3
    /\ values[2].name = "Top" /\ values[3].name = "A" /\ values[1].name = "D"
    /\ art.names = "ADTop"
    /\ art.first = {0}

\* some flag of the runs has a name longer than 255 bytes
LongNameKept == \E i \in 1 .. Len(Survivors) : Len(Survivors[i].name) > MaxNameLen

\* C22: a flag name longer than 255 bytes in the runs makes the table builder
\* give up (os.Exit(1)) and no table is emitted; otherwise the table is
\* built, names of 255 bytes included, and every entry of offsets is in
\* 0 .. 255.
C22_LongNameRejected ==
    gen # "input" =>
        LET long == LongNameKept
        IN  /\ long => (gen = "exit" /\ art.status = "exit" /\ art.offsets = <<>>)
            /\ ~long => gen = "built"
            /\ gen = "built" =>
                \A i \in 1 .. Len(art.offsets) : art.offsets[i] \in 0 .. MaxNameLen

\* C22 witness: the builder has given up on a list that holds the 256 byte
\* name together with the accepted 255 byte name.
C22_Witness ==
    /\ gen = "exit"
    /\ \E i, k \in 1 .. Len(values) :
        values[i].name = Name256 /\ values[k].name = Name255

\* the run of genFile is over: the file is written or the process has ended
BatchOver == batch.status \in {"written", "exit", "panic"}

\* type number i of the run cannot be built: a flag of its runs has a name
\* longer than 255 bytes
TooLong(i) ==
    buildBitflag(batch.types[i].consts, batch.types[i].name, g).status = "exit"

\* the written file has the String method of type number i
InFile(i) ==
    \E k \in 1 .. Len(batch.file) : batch.file[k].typename = batch.types[i].name

\* C23 as stated: a type with a flag name longer than 255 bytes takes only
\* itself out of the run; every other type named in the run is in the output.
C23_OnlyThatTypeAborted ==
    BatchOver => \A i \in 1 .. Len(batch.types) : ~TooLong(i) => InFile(i)

\* C23 as the code has it: a run over a type with a flag name longer than 255
\* bytes ends at that type by os.Exit(1), before the file is written, and no
\* type of the run is in the output, the ones generated before it included;
\* a run without such a type writes every type.
C23_LongNameEndsRun ==
    BatchOver =>
        IF \E i \in 1 .. Len(batch.types) : TooLong(i)
        THEN /\ batch.status = "exit"
             /\ TooLong(batch.next)
             /\ batch.file = <<>>
        ELSE /\ batch.status = "written"
             /\ \A i \in 1 .. Len(batch.types) : InFile(i)

\* C23 witness: the run has ended at its third type, after two types were
\* generated, and nothing is written.
C23_Witness ==
    /\ batch.status = "exit"
    /\ batch.next = 3
    /\ ~TooLong(1) /\ ~TooLong(2)
    /\ batch.file = <<>>

\* goroutine t holds the lock of the cache, shared or exclusive
HoldsLock(t) == t \in mu.readers \/ mu.writer = t

\* C24: a goroutine that computes the string of a missed mask holds neither
\* the read lock nor the write lock, from the release of the read lock until
\* it asks for the write lock after the computation; the step into the
\* computation is the release of the read lock.
C24_DecodeUnlocked ==
    /\ \A t \in Threads : pc[t] \in {"compute", "lock"} => ~HoldsLock(t)
    /\ \A t \in Threads : t \in mu.readers <=> InRead(t)
    /\ \A t \in Threads : mu.writer = t <=> InWrite(t)

\* C24 witness: one goroutine computes a missed mask while the other one is
\* inside the write section.
C24_Witness ==
    /\ pc["g1"] = "compute"
    /\ ~HoldsLock("g1")
    /\ pc["g2"] = "insert"
    /\ mu.writer = "g2"

\* C26: in every state, whatever the interleaving of calls and flushes, every
\* entry of the cache maps its mask to the string the decode routine gives
\* for that mask: the cache starts without entries, and every step that
\* changes it leaves each entry as it was or stores the decoded string of
\* the entry's mask.
C26_CacheCoherent ==
    /\ CacheLen(cached) = 0
    /\ [][cached' # cached =>
            \A k \in DOMAIN cached'.map :
                \/ k \in DOMAIN cached.map /\ cached'.map[k] = cached.map[k]
                \/ LET d == decode(art, typ, k)
                   IN  ~d.panic /\ cached'.map[k] = d.s]_vars

\* C26 witness: after a flush the cache holds entries of both goroutines
\* again, with the strings of their masks, while g1 is about to insert
\* one more.
C26_Witness ==
    /\ nfresh > capCache
    /\ pc["g1"] = "insert"
    /\ CacheLen(cached) = 2
    /\ FreshMask(2) \in DOMAIN cached.map
    /\ cached.map[FreshMask(2)] = "B"

\* entry k of the cache is the same after the step
EntryKept(k) == k \in DOMAIN cached'.map /\ cached'.map[k] = cached.map[k]

\* C29: only the insertion step of a missed call changes the cache (the
\* steps of a call that hits leave it as it is); an insertion into a cache
\* of fewer than capCache entries keeps every entry other than the inserted
\* key; and a step after which an entry is gone is an insertion into a full
\* cache after which nothing but the inserted key is left.
C29_HitAndInsertFrame ==
    [][\A t \in Threads :
        /\ (pc'[t] # pc[t] /\ pc[t] # "insert") => cached' = cached
        /\ (pc[t] = "insert" /\ pc'[t] = "unlock") =>
            LET key == Key(art, typ, arg[t])
            IN  /\ CacheLen(cached) < capCache =>
                    \A k \in DOMAIN cached.map \ {key} : EntryKept(k)
                /\ (\E k \in DOMAIN cached.map : k \notin DOMAIN cached'.map) =>
                    (CacheLen(cached) >= capCache /\ DOMAIN cached'.map = {key})]_vars

\* C29 witness: g1 has just inserted the last entry that fits, all earlier
\* entries are still there, and g2 has returned by a hit.
C29_Witness ==
    /\ pc["g1"] = "unlock"
    /\ CacheLen(cached) = capCache
    /\ nfresh = capCache
    /\ pc["g2"] = "idle" /\ ret["g2"].set /\ ret["g2"].via = "hit"

\* C28: under fair scheduling every cached String call in progress returns,
\* whatever the other goroutine does, and a goroutine that is not inside a
\* call holds no lock (every RLock and Lock of the hit, miss and flush paths
\* has been undone when the call returns).
C28_CallsReturn ==
    /\ [](\A t \in Threads : pc[t] = "idle" => ~HoldsLock(t))
    /\ \A t \in Threads :
        (pc[t] # "idle") ~> (pc[t] = "idle" /\ ret[t].set /\ ~HoldsLock(t))

\* C28 witness: g1 has returned from a call that missed and flushed the full
\* cache, it holds no lock, the lock is free, and g2 is inside a call.
C28_Witness ==
    /\ pc["g1"] = "idle" /\ ret["g1"].set /\ ret["g1"].via = "miss"
    /\ nfresh > capCache
    /\ CacheLen(cached) = 1
    /\ mu.writer = None /\ "g1" \notin mu.readers
    /\ pc["g2"] = "lock"

\* the artifact's decoder has the "o == 0" branch: the shared mstring and
\* the String templates with skips have it, stringBitflagCode and
\* stringBitflagCacheCode do not
HasGapBranch(a) == a.code \notin {"stringBitflagCode", "stringBitflagCacheCode"}

\* the steps of the decoder's loop that read a name offset, from loop index
\* i with candidate bit v, skip index si and name end p1: for each its
\* candidate bit v and the name blob[p0:p1] (the loop shifts v by one after
\* every step, and by skips[si] - 1 more at a gap entry)
RECURSIVE NameSteps(_, _, _, _, _, _)
NameSteps(a, t, i, v, si, p1) ==
    IF i >= Len(a.offsets) THEN <<>>
    ELSE LET o == a.offsets[i + 1]
         IN  IF HasGapBranch(a) /\ o = 0
             THEN IF si >= Len(a.skips) THEN <<>>
                  ELSE NameSteps(a, t, i + 1,
                                 Shl(Shl(v, (a.skips[si + 1] - 1) % 256, t.bits), 1, t.bits),
                                 si + 1, p1)
             ELSE <<[v |-> v, name |-> SubSeq(a.names, p1 + 1, p1 + o)]>>
                      \o NameSteps(a, t, i + 1, Shl(v, 1, t.bits), si, p1 + o)

\* the lowest bit position of a flag value
LowBit(v) == CHOOSE x \in v : \A y \in v : x <= y

\* the type of the candidate bit v in the artifact's decoder
LoopType == IF IsTableDriven(art) THEN U64 ELSE typ

\* C25 (as claimed): the decoder's candidate bit starts at 1 << (lowest bit
\* position of the first surviving flag), and the loop has one name step per
\* surviving flag, in table order, at which v is exactly the single bit of
\* that flag and blob[p0:p1] is its name (so every gap entry moves v from the
\* bit behind a run to the first bit of the next run).
C25_DecoderAligned ==
    gen = "built" =>
        LET sv == Survivors
            v0 == loopInit(art, LoopType, {}).v
            steps == NameSteps(art, LoopType, 0, v0, 0, 0)
        IN  /\ v0 = {LowBit(sv[1].value)}
            /\ Len(steps) = Len(sv)
            /\ \A k \in 1 .. Len(sv) :
                /\ Cardinality(steps[k].v) = 1
                /\ steps[k].v = sv[k].value
                /\ steps[k].name = sv[k].name

\* C27 (as claimed): every entry of skips is in 1 .. 62, so the decoder's
\* uint8 computation skips[si] - 1 does not wrap around and the shift at a
\* gap entry is less than 64.
C27_SkipsInRange ==
    gen = "built" =>
        \A i \in 1 .. Len(art.skips) :
            /\ art.skips[i] \in 1 .. 62
            /\ (art.skips[i] - 1) % 256 < W64

\* C30 (as claimed): on every non-empty input list buildBitflag completes
\* without an index out of range, and splitIntoBitflagRuns returns at least
\* one run, the first of them non-empty (runs[0][0] exists).
C30_NonEmptyCompletes ==
    gen # "input" =>
        LET sp == splitIntoBitflagRuns(values)
        IN  /\ gen # "panic"
            /\ ~sp.panic
            /\ Len(sp.runs) >= 1
            /\ Len(sp.runs[1]) >= 1

====
